---- MODULE Spec2Model ----
(***************************************************************************)
(* ShortChat (src/shortchat.py): a global hotkey captures the selected     *)
(* text through the clipboard, sends a rendered prompt to a completion     *)
(* service and pastes the answer at the cursor.                            *)
(*                                                                         *)
(* Texts are sequences of tokens; " " and "\n" are the whitespace tokens.  *)
(* Time is counted in ticks of 0.1 s.                                      *)
(***************************************************************************)
EXTENDS Integers, Sequences, FiniteSets, TLC

\* ------------------------------------------------------------------ bounds
MaxEvents == 3
MaxFaults == 2
MaxRestarts == 1
Horizon == 6
ClockStart == 5
NumHandlers == 2

\* ------------------------------------------------------- program constants
\* 0.5 s debounce (line 157), in ticks of 0.1 s
DebounceTicks == 5

Handlers == 1..NumHandlers
MaxTime == ClockStart + Horizon

Placeholder == "{selection}"
Whitespace == {" ", "\n"}

\* line 103
complement == <<"\\Do not add any other word than the strict minimum asked, so it can be pasted as is.">>

\* line 187
error_message == <<"Error: Failed to get AI response. Check logs for details.">>

\* lines 84-88
default_shortcuts ==
  ("f1" :> <<"Make this text more diplomatic:", "\n", Placeholder>>) @@
  ("f2" :> <<"Debug this code:", "\n", Placeholder>>) @@
  ("f3" :> <<"Correct the spelling mistakes:", "\n", Placeholder>>)

EmptyTable == [k \in {} |-> <<>>]

\* ------------------------------------------------------------ environment
\* What the completion service may answer.
GatewayTexts == {<<"answer">>}

\* What the user may have selected in the foreground application.
Selections == {<<>>, <<" ">>, <<" ", "helo wrold", "\n">>}

\* Clipboard contents at process start.
InitialClipboards == {<<"old">>}

\* Names the key events carry (event.name).
KeyNames == {"F1", "f5"}

\* A user-edited template (spec section 8).
FixTemplate == <<"Fix:", "\n", Placeholder>>

\* The configuration file: absent, present but not JSON, or a JSON object.
FileAbsent == [kind |-> "absent", tbl |-> EmptyTable]
FileGarbage == [kind |-> "garbage", tbl |-> EmptyTable]
FileOf(t) == [kind |-> "json", tbl |-> t]

UserTables == {("f5" :> FixTemplate), ("f1" :> FixTemplate)}

InitialFiles == {FileAbsent, FileGarbage} \cup {FileOf(t) : t \in UserTables}

\* ---------------------------------------------------------- pure functions
\* str.lower() on the key names of KeyNames
Lower(k) == CASE k = "F1" -> "f1"
              [] k = "F2" -> "f2"
              [] k = "F3" -> "f3"
              [] k = "F5" -> "f5"
              [] OTHER -> k

RECURSIVE LStrip(_)
LStrip(s) == IF s = <<>> THEN s
             ELSE IF Head(s) \in Whitespace THEN LStrip(Tail(s)) ELSE s

RECURSIVE RStrip(_)
RStrip(s) == IF s = <<>> THEN s
             ELSE IF s[Len(s)] \in Whitespace THEN RStrip(SubSeq(s, 1, Len(s) - 1)) ELSE s

\* str.strip()
Strip(s) == RStrip(LStrip(s))

\* prompt_template.format(selection=selection)
RECURSIVE Render(_, _)
Render(t, s) == IF t = <<>> THEN <<>>
                ELSE (IF Head(t) = Placeholder THEN s ELSE <<Head(t)>>) \o Render(Tail(t), s)

\* json.dump(default_shortcuts, f)
JsonDump(t) == FileOf(t)

\* a plausible slip: the parse error of line 97 is not raised
JsonLoadsAnything(f) == TRUE

\* json.load(f): the object of a JSON file; anything else raises
JsonLoads(f) == f.kind = "json"
JsonLoad(f) == f.tbl

\* lines 82-93: default_shortcuts is assigned only when the file is absent
DefaultsBound(f) == f.kind = "absent"

\* lines 104-105: every default key gets its default template plus the clause
WithComplement(t) ==
  [k \in (DOMAIN t) \cup (DOMAIN default_shortcuts) |->
     IF k \in DOMAIN default_shortcuts THEN default_shortcuts[k] \o complement ELSE t[k]]

\* lines 75-107: the table returned (or raised = TRUE when an exception leaves
\* the method) and the configuration file it leaves behind
load_shortcuts(f) ==
  LET written == IF f.kind = "absent" THEN JsonDump(default_shortcuts) ELSE f
  IN  IF ~JsonLoads(written)
        THEN [raised |-> FALSE, table |-> EmptyTable, file |-> written]
      ELSE IF ~DefaultsBound(f)
        THEN [raised |-> TRUE, table |-> EmptyTable, file |-> written]
      ELSE [raised |-> FALSE, table |-> WithComplement(JsonLoad(written)), file |-> written]

\* a plausible slip: the debounce check is missing
DebounceOff(current_time, last) == TRUE

\* line 157: the event passes unless it is within the window
DebouncePass(current_time, last) == ~(current_time - last < DebounceTicks)

\* ------------------------------------------------------------------ state
VARIABLES
  main,           \* position of main()/run(): "init", "run", "listening", "exited", "crashed"
  file,           \* the configuration file
  loads,          \* history: one record per load_shortcuts call
  shortcuts,      \* self.shortcuts
  last_key_time,  \* self.last_key_time
  clipboard,      \* the system clipboard
  sel,            \* the text selected in the foreground application
  now,            \* time.time()
  queue,          \* key events the listener has received and not yet delivered
  frame,          \* one activation of handle_shortcut per handler slot
  lastAccept,     \* history: when the last event passed the debounce check (-1: none)
  faults,         \* OS calls that have failed so far
  nEvents,        \* key events received so far
  restarts,       \* process restarts so far
  denied,         \* history: the accessibility check of this run failed
  dropsSince      \* history: events dropped since the last accepted one

vars == <<main, file, loads, shortcuts, last_key_time, clipboard, sel, now,
          queue, frame, lastAccept, faults, nEvents, restarts, denied, dropsSince>>

NoEvent == [name |-> "", inWin |-> FALSE]

IdleFrame ==
  [pc |-> "idle", ev |-> NoEvent, outcome |-> "none", t0 |-> 0, prev |-> -1,
   template |-> <<>>, old |-> <<>>, before |-> <<>>, read |-> <<>>, selection |-> <<>>,
   prompt |-> <<>>, gw |-> "none", answer |-> <<>>, text |-> <<>>, inTry |-> FALSE, raised |-> FALSE,
   captured |-> FALSE, calls |-> <<>>, typed |-> <<>>, escaped |-> FALSE,
   gstRaised |-> FALSE, requests |-> 0, failed |-> "none", restoreFailed |-> FALSE, keys |-> 0,
   drops |-> 0]

\* lines 57-59 and 243-248
Init ==
  /\ main = "init"
  /\ file \in InitialFiles
  /\ loads = <<>>
  /\ shortcuts = EmptyTable
  /\ last_key_time = 0
  /\ clipboard \in InitialClipboards
  /\ sel = <<>>
  /\ now = ClockStart
  /\ queue = <<>>
  /\ frame = [h \in Handlers |-> IdleFrame]
  /\ lastAccept = -1
  /\ faults = 0
  /\ nEvents = 0
  /\ restarts = 0
  /\ denied = FALSE
  /\ dropsSince = 0

\* An OS call may fail while the fault budget lasts.
Outcomes == IF faults < MaxFaults THEN {TRUE, FALSE} ELSE {TRUE}

Fault(ok) == faults' = IF ok THEN faults ELSE faults + 1

\* ShortChat.__init__ (lines 57-73): load the table; an exception reaches main()
Construct ==
  /\ main = "init"
  /\ LET r == load_shortcuts(file)
     IN  /\ file' = r.file
         /\ loads' = Append(loads, [before |-> file.kind, raised |-> r.raised, table |-> r.table])
         /\ shortcuts' = r.table
         /\ main' = IF r.raised THEN "crashed" ELSE "run"
  /\ last_key_time' = 0
  /\ UNCHANGED <<clipboard, sel, now, queue, frame, lastAccept, faults, nEvents, restarts,
                 denied, dropsSince>>

\* a listener that would invoke the callback for each event on a thread of its own
ListenerConcurrent == TRUE

\* the single processing thread of the keyboard listener invokes the callback
\* registered at line 206 for one event at a time
ListenerFree == \A g \in Handlers : frame[g].pc = "idle"

\* check_accessibility_permissions (lines 32-43): sendOk is whether
\* keyboard.send('shift') went through
check_accessibility_permissions(platform, sendOk) ==
  IF platform # "darwin" THEN TRUE ELSE sendOk

\* a plausible slip: the result of the check is not acted on
PermissionMissingIgnored(platform, sendOk) == FALSE

\* line 221: the condition under which run() returns before registering
PermissionMissing(platform, sendOk) ==
  platform = "darwin" /\ ~check_accessibility_permissions(platform, sendOk)

\* ShortChat.run (lines 215-241) up to keyboard.wait(); an exception of the
\* permission dialog (line 224) or of register_shortcuts (line 233) reaches main()
Run ==
  /\ main = "run"
  /\ \E platform \in {"darwin", "linux"}, sendOk \in BOOLEAN, promptOk \in BOOLEAN,
        reg \in BOOLEAN :
       /\ denied' = ~check_accessibility_permissions(platform, sendOk)
       /\ main' = IF PermissionMissing(platform, sendOk)
                    THEN (IF promptOk THEN "exited" ELSE "crashed")
                  ELSE IF ~reg THEN "crashed"
                  ELSE "listening"
  /\ UNCHANGED <<file, loads, shortcuts, last_key_time, clipboard, sel, now, queue,
                 frame, lastAccept, faults, nEvents, restarts, dropsSince>>

\* The process ends (Ctrl+C, lines 236-238, or after a fatal error) and is started again.
Restart ==
  /\ main \in {"listening", "exited", "crashed"}
  /\ restarts < MaxRestarts
  /\ ListenerFree
  /\ main' = "init"
  /\ shortcuts' = EmptyTable
  /\ last_key_time' = 0
  /\ lastAccept' = -1
  /\ queue' = <<>>
  /\ restarts' = restarts + 1
  /\ denied' = FALSE
  /\ dropsSince' = 0
  /\ UNCHANGED <<file, loads, clipboard, sel, now, frame, faults, nEvents>>

\* Time passes while the listener waits for a key and while the completion call
\* blocks (lines 169-177); the other steps take the time of their time.sleep, and
\* a free listener delivers a received event at once.
Tick ==
  /\ now < MaxTime
  /\ \A h \in Handlers : frame[h].pc \in {"idle", "request"}
  /\ (main = "listening" /\ ListenerFree) => queue = <<>>
  /\ now' = now + 1
  /\ UNCHANGED <<main, file, loads, shortcuts, last_key_time, clipboard, sel,
                 queue, frame, lastAccept, faults, nEvents, restarts, denied, dropsSince>>

\* time.sleep(d), in ticks; the clock of the model stops at MaxTime
Sleep(d) == now' = IF now + d > MaxTime THEN MaxTime ELSE now + d

\* a dispatch is between the start of its capture and the end of its injection
InDispatch(f) == f.outcome = "accepted" /\ f.pc \notin {"idle", "ret"}

\* The OS listener receives a key press while the hook of line 206 is installed.
KeyPress ==
  /\ main = "listening"
  /\ nEvents < MaxEvents
  /\ \E k \in KeyNames, s \in Selections :
       /\ queue' = Append(queue,
             [name |-> k,
              inWin |-> \E h \in Handlers :
                           InDispatch(frame[h]) /\ now - frame[h].t0 < DebounceTicks])
       /\ sel' = s
  /\ nEvents' = nEvents + 1
  /\ UNCHANGED <<main, file, loads, shortcuts, last_key_time, clipboard, now,
                 frame, lastAccept, faults, restarts, denied, dropsSince>>

boot == <<main, file, loads, restarts, denied>>

Put(h, f) == frame' = [frame EXCEPT ![h] = f]

\* a plausible slip: the debounce timestamp is written before the table lookup
IgnoreKeyStamped(h, f) ==
  /\ Put(h, [f EXCEPT !.pc = "ret", !.outcome = "unknown"])
  /\ last_key_time' = now
  /\ UNCHANGED <<lastAccept, dropsSince>>

\* handle_shortcut, line 195: a key that is not in the table is ignored
IgnoreKey(h, f) ==
  /\ Put(h, [f EXCEPT !.pc = "ret", !.outcome = "unknown"])
  /\ UNCHANGED <<last_key_time, lastAccept, dropsSince>>

\* a plausible slip: a dropped event restarts the window
DropKeySliding(h, f) ==
  /\ Put(h, [f EXCEPT !.pc = "ret", !.outcome = "dropped"])
  /\ last_key_time' = now
  /\ dropsSince' = dropsSince + 1
  /\ UNCHANGED lastAccept

\* open_chatgpt_with_prompt, lines 157-158: within the window, return
DropKey(h, f) ==
  /\ Put(h, [f EXCEPT !.pc = "ret", !.outcome = "dropped"])
  /\ dropsSince' = dropsSince + 1
  /\ UNCHANGED <<last_key_time, lastAccept>>

\* a plausible slip: the timestamp is not written when the event is accepted
AcceptStampDeferred(current_time) == last_key_time

\* line 159: self.last_key_time = current_time, before capture starts
AcceptStamp(current_time) == current_time

\* handle_shortcut (lines 190-197) with the debounce of open_chatgpt_with_prompt
\* (lines 155-159): the listener hands the oldest received event to the callback
HandleShortcut(h) ==
  /\ main = "listening"
  /\ queue # <<>>
  /\ ListenerFree
  /\ frame[h].pc = "idle"
  /\ \A g \in Handlers : g < h => frame[g].pc # "idle"
  /\ LET event == Head(queue)
         key_name == Lower(event.name)
         current_time == now
         f == [IdleFrame EXCEPT !.ev = event, !.t0 = current_time, !.prev = lastAccept,
                                !.drops = dropsSince]
     IN  IF key_name \notin DOMAIN shortcuts
           THEN IgnoreKey(h, f)
         ELSE IF ~DebouncePass(current_time, last_key_time)
           THEN DropKey(h, f)
         ELSE /\ last_key_time' = AcceptStamp(current_time)
              /\ lastAccept' = current_time
              /\ dropsSince' = 0
              /\ Put(h, [f EXCEPT !.pc = "gst_read1", !.outcome = "accepted",
                                  !.template = shortcuts[key_name]])
  /\ queue' = Tail(queue)
  /\ UNCHANGED <<boot, shortcuts, clipboard, sel, now, faults, nEvents>>

\* a plausible slip: the except branch returns what was read so far
GstExceptKeepsRead(f) ==
  [f EXCEPT !.pc = "gst_done", !.selection = Strip(f.read), !.gstRaised = TRUE]

\* get_selected_text, except branch (lines 126-128): return ""
GstExcept(f) == [f EXCEPT !.pc = "gst_done", !.selection = <<>>, !.gstRaised = TRUE]

\* get_selected_text, line 112: old_clipboard = pyperclip.paste()
GstRead1(h) ==
  /\ frame[h].pc = "gst_read1"
  /\ \E ok \in Outcomes :
       /\ Fault(ok)
       /\ LET f == [frame[h] EXCEPT !.captured = TRUE, !.before = clipboard, !.old = <<>>]
          IN  Put(h, IF ok THEN [f EXCEPT !.pc = "gst_send", !.old = <<clipboard>>]
                     ELSE GstExcept(f))
  /\ UNCHANGED <<boot, shortcuts, last_key_time, clipboard, sel, now, queue, lastAccept, nEvents, dropsSince>>

\* get_selected_text, lines 114-115: the copy key puts a non-empty selection on the clipboard
GstSend(h) ==
  /\ frame[h].pc = "gst_send"
  /\ \E ok \in Outcomes :
       /\ Fault(ok)
       /\ clipboard' = IF ok /\ sel # <<>> THEN sel ELSE clipboard
       /\ IF ok THEN Sleep(2) ELSE UNCHANGED now
       /\ Put(h, IF ok THEN [frame[h] EXCEPT !.pc = "gst_read2"] ELSE GstExcept(frame[h]))
  /\ UNCHANGED <<boot, shortcuts, last_key_time, sel, queue, lastAccept, nEvents, dropsSince>>

\* get_selected_text, line 117: selection = pyperclip.paste()
GstRead2(h) ==
  /\ frame[h].pc = "gst_read2"
  /\ \E ok \in Outcomes :
       /\ Fault(ok)
       /\ Put(h, IF ok THEN [frame[h] EXCEPT !.pc = "gst_restore", !.read = clipboard]
                 ELSE GstExcept(frame[h]))
  /\ UNCHANGED <<boot, shortcuts, last_key_time, clipboard, sel, now, queue, lastAccept, nEvents, dropsSince>>

\* a plausible slip: line 118 is missing
GstRestoreSkipped(old_clipboard, ok) == clipboard

\* line 118: pyperclip.copy(old_clipboard)
GstRestoreWrite(old_clipboard, ok) == IF ok THEN old_clipboard ELSE clipboard

\* get_selected_text, lines 118-125: pyperclip.copy(old_clipboard); return selection.strip()
GstRestore(h) ==
  /\ frame[h].pc = "gst_restore"
  /\ \E ok \in Outcomes :
       /\ Fault(ok)
       /\ clipboard' = GstRestoreWrite(frame[h].old[1], ok)
       /\ Put(h, IF ok THEN [frame[h] EXCEPT !.pc = "gst_done", !.selection = Strip(frame[h].read)]
                 ELSE GstExcept(frame[h]))
  /\ UNCHANGED <<boot, shortcuts, last_key_time, sel, now, queue, lastAccept, nEvents, dropsSince>>

\* a call of paste_text_at_cursor(text) begins; old_clipboard is not yet bound
CallPaste(f, text, inTry) ==
  [f EXCEPT !.pc = "p_read", !.text = text, !.inTry = inTry, !.old = <<>>, !.raised = FALSE,
            !.calls = Append(f.calls, text),
            !.failed = "none", !.restoreFailed = FALSE, !.keys = 0]

\* a plausible slip: the check of line 162 is missing
NoSelectionUnchecked(selection) == FALSE

\* line 162: not selection
NoSelection(selection) == selection = <<>>

\* open_chatgpt_with_prompt, lines 162-166: stop on an empty selection, else render
AfterCapture(h) ==
  /\ frame[h].pc = "gst_done"
  /\ Put(h, IF NoSelection(frame[h].selection)
              THEN [frame[h] EXCEPT !.pc = "ret"]
              ELSE [frame[h] EXCEPT !.pc = "request",
                                    !.prompt = Render(frame[h].template, frame[h].selection)])
  /\ UNCHANGED <<boot, shortcuts, last_key_time, clipboard, sel, now, queue, lastAccept,
                 faults, nEvents, dropsSince>>

\* a plausible slip: the completion call is tried again after a failure
RetryOnFailure(f) == [f EXCEPT !.gw = "fail"]

\* lines 185-188: a failed completion call leads to the call of
\* paste_text_at_cursor with the error string
OnGatewayFailure(f) == CallPaste([f EXCEPT !.gw = "fail"], error_message, FALSE)

\* open_chatgpt_with_prompt, lines 168-188: the blocking completion call, then the
\* call of paste_text_at_cursor with the answer (in the try) or with the error string
Request(h) ==
  /\ frame[h].pc = "request"
  /\ LET f == [frame[h] EXCEPT !.requests = frame[h].requests + 1]
     IN  \/ \E text_answer \in GatewayTexts :
               Put(h, CallPaste([f EXCEPT !.gw = "ok", !.answer = text_answer],
                                text_answer, TRUE))
         \/ Put(h, OnGatewayFailure(f))
  /\ UNCHANGED <<boot, shortcuts, last_key_time, clipboard, sel, now, queue, lastAccept,
                 faults, nEvents, dropsSince>>

\* paste_text_at_cursor, line 134: old_clipboard = pyperclip.paste()
PRead(h) ==
  /\ frame[h].pc = "p_read"
  /\ \E ok \in Outcomes :
       /\ Fault(ok)
       /\ LET f == [frame[h] EXCEPT !.before = clipboard]
          IN  Put(h, IF ok THEN [f EXCEPT !.pc = "p_write", !.old = <<clipboard>>]
                     ELSE [f EXCEPT !.pc = "p_except", !.failed = "read"])
  /\ UNCHANGED <<boot, shortcuts, last_key_time, clipboard, sel, now, queue, lastAccept, nEvents, dropsSince>>

\* paste_text_at_cursor, lines 137-138: pyperclip.copy(text)
PWrite(h) ==
  /\ frame[h].pc = "p_write"
  /\ \E ok \in Outcomes :
       /\ Fault(ok)
       /\ clipboard' = IF ok THEN frame[h].text ELSE clipboard
       /\ IF ok THEN Sleep(1) ELSE UNCHANGED now
       /\ Put(h, IF ok THEN [frame[h] EXCEPT !.pc = "p_send"]
                 ELSE [frame[h] EXCEPT !.pc = "p_except", !.failed = "write"])
  /\ UNCHANGED <<boot, shortcuts, last_key_time, sel, queue, lastAccept, nEvents, dropsSince>>

\* paste_text_at_cursor, lines 141-142: the paste key replaces the selection by the clipboard
PSend(h) ==
  /\ frame[h].pc = "p_send"
  /\ \E ok \in Outcomes :
       /\ Fault(ok)
       /\ sel' = IF ok THEN <<>> ELSE sel
       /\ IF ok THEN Sleep(1) ELSE UNCHANGED now
       /\ Put(h, IF ok THEN [frame[h] EXCEPT !.pc = "p_restore", !.keys = frame[h].keys + 1,
                                             !.typed = Append(frame[h].typed, clipboard)]
                 ELSE [frame[h] EXCEPT !.pc = "p_except", !.keys = frame[h].keys + 1,
                                       !.failed = "send"])
  /\ UNCHANGED <<boot, shortcuts, last_key_time, clipboard, queue, lastAccept, nEvents, dropsSince>>

\* paste_text_at_cursor, lines 145-147: pyperclip.copy(old_clipboard)
PRestore(h) ==
  /\ frame[h].pc = "p_restore"
  /\ \E ok \in Outcomes :
       /\ Fault(ok)
       /\ clipboard' = IF ok THEN frame[h].old[1] ELSE clipboard
       /\ Put(h, IF ok THEN [frame[h] EXCEPT !.pc = "p_done"]
                 ELSE [frame[h] EXCEPT !.pc = "p_except", !.failed = "restore"])
  /\ UNCHANGED <<boot, shortcuts, last_key_time, sel, now, queue, lastAccept, nEvents, dropsSince>>

\* paste_text_at_cursor, lines 148-151: pyperclip.copy(old_clipboard) in the handler;
\* an unbound old_clipboard or a failing write raises out of the method
PExcept(h) ==
  /\ frame[h].pc = "p_except"
  /\ IF frame[h].old = <<>>
       THEN /\ Put(h, [frame[h] EXCEPT !.pc = "p_done", !.raised = TRUE,
                                        !.restoreFailed = TRUE])
            /\ UNCHANGED <<clipboard, faults>>
       ELSE \E ok \in Outcomes :
              /\ Fault(ok)
              /\ clipboard' = IF ok THEN frame[h].old[1] ELSE clipboard
              /\ Put(h, [frame[h] EXCEPT !.pc = "p_done", !.raised = ~ok,
                                          !.restoreFailed = ~ok])
  /\ UNCHANGED <<boot, shortcuts, last_key_time, sel, now, queue, lastAccept, nEvents, dropsSince>>

\* open_chatgpt_with_prompt, lines 183-188: an exception of the call at line 183 is
\* caught at line 185 and the error string is pasted; one of the call at line 188
\* leaves the handler
AfterPaste(h) ==
  /\ frame[h].pc = "p_done"
  /\ IF frame[h].raised /\ frame[h].inTry
       THEN Put(h, CallPaste(frame[h], error_message, FALSE))
       ELSE Put(h, [frame[h] EXCEPT !.pc = "ret", !.escaped = frame[h].raised])
  /\ UNCHANGED <<boot, shortcuts, last_key_time, clipboard, sel, now, queue, lastAccept,
                 faults, nEvents, dropsSince>>

\* a plausible slip: the timestamp is written when the dispatch completes
ReturnStampCompletion == now

\* lines 159-188: last_key_time is not written again after line 159
ReturnStamp == last_key_time

\* handle_shortcut returns to the listener (an escaped exception is caught there)
Return(h) ==
  /\ frame[h].pc = "ret"
  /\ Put(h, IdleFrame)
  /\ last_key_time' = ReturnStamp
  /\ UNCHANGED <<boot, shortcuts, clipboard, sel, now, queue, lastAccept,
                 faults, nEvents, dropsSince>>

Next ==
  \/ Construct
  \/ Run
  \/ Restart
  \/ Tick
  \/ KeyPress
  \/ \E h \in Handlers : HandleShortcut(h)
  \/ \E h \in Handlers : GstRead1(h)
  \/ \E h \in Handlers : GstSend(h)
  \/ \E h \in Handlers : GstRead2(h)
  \/ \E h \in Handlers : GstRestore(h)
  \/ \E h \in Handlers : AfterCapture(h)
  \/ \E h \in Handlers : Request(h)
  \/ \E h \in Handlers : PRead(h)
  \/ \E h \in Handlers : PWrite(h)
  \/ \E h \in Handlers : PSend(h)
  \/ \E h \in Handlers : PRestore(h)
  \/ \E h \in Handlers : PExcept(h)
  \/ \E h \in Handlers : AfterPaste(h)
  \/ \E h \in Handlers : Return(h)

Spec == Init /\ [][Next]_vars

\* ------------------------------------------------------------------ claims
Known(name) == Lower(name) \in DOMAIN shortcuts

AllWhitespace(t) == \A i \in 1..Len(t) : t[i] \in Whitespace

CaptureOver(f) == f.captured /\ f.pc \notin {"gst_read1", "gst_send", "gst_read2", "gst_restore"}

\* a scoped clipboard operation has read the clipboard and not yet returned
ScopeOpen(f) ==
  f.pc \in {"gst_send", "gst_read2", "gst_restore", "p_write", "p_send", "p_restore", "p_except"}

\* C1: when get_selected_text or paste_text_at_cursor has just returned or raised,
\* the clipboard holds what it held when the operation began, whichever step failed.
C1_ClipboardRestored ==
  \A h \in Handlers :
    frame[h].pc \in {"gst_done", "p_done"} => clipboard = frame[h].before

\* C2: a dispatch whose capture succeeded ends with exactly one call of
\* paste_text_at_cursor and at most one paste key: the call carries the gateway's
\* text when the gateway succeeded and the error string when it failed.
C2_ExactlyOneInjection ==
  \A h \in Handlers :
    LET f == frame[h]
    IN  (f.pc = "ret" /\ f.captured /\ f.selection # <<>>) =>
          /\ Len(f.calls) = 1
          /\ Len(f.typed) <= 1
          /\ f.gw = "ok" => f.calls[1] = f.answer
          /\ f.gw = "fail" => f.calls[1] = error_message

C4_InWindowEventDropped ==
  \A h \in Handlers :
    frame[h].ev.inWin => (frame[h].outcome # "accepted" /\ ~frame[h].captured)

C6_UnknownKeyNoEffect ==
  [][\A h \in Handlers :
       (/\ frame'[h] # frame[h]
        /\ \/ (frame'[h].pc # "idle" /\ ~Known(frame'[h].ev.name))
           \/ (frame[h].pc # "idle" /\ ~Known(frame[h].ev.name))) =>
         /\ frame'[h].pc \in {"ret", "idle"}
         /\ ~frame'[h].captured /\ frame'[h].gw = "none" /\ frame'[h].calls = <<>>
         /\ UNCHANGED <<last_key_time, shortcuts, clipboard, file>>]_vars

C6_Witness ==
  \E h \in Handlers :
    /\ frame[h].pc = "ret"
    /\ frame[h].outcome = "unknown"
    /\ shortcuts # EmptyTable
    /\ ~Known(frame[h].ev.name)

\* C7: once capture has yielded an empty or whitespace-only selection, the
\* dispatch makes no completion request and no injection.
C7_EmptySelectionStops ==
  \A h \in Handlers :
    LET f == frame[h]
    IN  (CaptureOver(f) /\ (f.selection = <<>> \/ AllWhitespace(f.read))) =>
          /\ f.pc \in {"gst_done", "ret"}
          /\ f.gw = "none" /\ f.prompt = <<>>
          /\ f.calls = <<>> /\ f.typed = <<>>

C7_Witness ==
  \E h \in Handlers :
    /\ frame[h].pc = "ret"
    /\ frame[h].captured
    /\ frame[h].read = <<" ">>
    /\ frame[h].selection = <<>>

\* C8: after a first load without a configuration file, which returns the three
\* defaults with the clause and writes the file, a second load returns without
\* raising the same table.
C8_BootstrapReload ==
  (Len(loads) >= 2 /\ loads[1].before = "absent") =>
    /\ ~loads[1].raised
    /\ loads[1].table = [k \in DOMAIN default_shortcuts |-> default_shortcuts[k] \o complement]
    /\ ~loads[2].raised
    /\ loads[2].table = loads[1].table

\* C9: with an unparseable configuration file load_shortcuts returns the empty
\* table without raising, and every key event is then ignored: no capture,
\* request or injection.
C9_GarbageConfig ==
  file.kind = "garbage" =>
    /\ \A i \in 1..Len(loads) : ~loads[i].raised /\ loads[i].table = EmptyTable
    /\ shortcuts = EmptyTable
    /\ \A h \in Handlers :
         /\ frame[h].outcome \in {"none", "unknown"}
         /\ ~frame[h].captured /\ frame[h].gw = "none" /\ frame[h].calls = <<>>

C9_Witness ==
  /\ file.kind = "garbage"
  /\ main = "listening"
  /\ \E h \in Handlers :
       /\ frame[h].pc = "ret"
       /\ Lower(frame[h].ev.name) \in DOMAIN default_shortcuts

\* C10: a load of an existing configuration returns every entry of it with the
\* clause appended, and every prompt sent is the configured template rendered
\* with the captured text, followed by the clause.
C10_ClauseAlwaysAppended ==
  /\ \A i \in 1..Len(loads) :
       loads[i].before = "json" =>
         /\ ~loads[i].raised
         /\ DOMAIN loads[i].table = DOMAIN file.tbl
         /\ \A k \in DOMAIN file.tbl : loads[i].table[k] = file.tbl[k] \o complement
  /\ \A h \in Handlers :
       frame[h].pc = "request" =>
         frame[h].prompt =
           Render(file.tbl[Lower(frame[h].ev.name)], frame[h].selection) \o complement

\* C11: no exception leaves handle_shortcut, whichever clipboard reads and writes,
\* key injections and gateway calls fail.
C11_NoEscape ==
  \A h \in Handlers : ~frame[h].escaped

\* C12: in a run whose accessibility check failed the listener is never
\* registered: the process is never in its event-wait state, no key event is
\* received and no capture, request or injection is started.
C12_NoListenerWithoutPermission ==
  denied =>
    /\ main \in {"exited", "crashed"}
    /\ queue = <<>>
    /\ \A h \in Handlers : frame[h] = IdleFrame

C12_Witness ==
  denied /\ main = "exited"

\* C13: when the restore write after a failure inside paste_text_at_cursor fails
\* too, the call still returns without raising.
C13_RestoreFailureSuppressed ==
  \A h \in Handlers :
    (frame[h].pc = "p_done" /\ frame[h].old # <<>> /\ frame[h].restoreFailed) =>
      ~frame[h].raised

\* C14: when the paste key-injection of a paste_text_at_cursor call has failed,
\* the call ends with the clipboard as it was when the call began, without
\* raising, and having issued that one paste key only.
C14_PasteKeyFailure ==
  \A h \in Handlers :
    (frame[h].pc = "p_done" /\ frame[h].failed = "send") =>
      /\ clipboard = frame[h].before
      /\ ~frame[h].raised
      /\ frame[h].keys = 1

\* C15: the debounce timestamp is the time the last accepted dispatch started, not
\* the time it completed, so a known-hotkey event handled a window or more after
\* that start is accepted.
C15_WindowFromStart ==
  /\ lastAccept >= 0 => last_key_time = lastAccept
  /\ \A h \in Handlers :
       (frame[h].outcome \in {"dropped", "accepted"} /\ frame[h].prev >= 0
          /\ frame[h].t0 - frame[h].prev >= DebounceTicks) =>
         frame[h].outcome = "accepted"

\* The event was received during the previous dispatch and is handled the moment
\* that dispatch returns: a window after its start, no time after its completion.
C15_Witness ==
  \E h \in Handlers :
    /\ frame[h].outcome = "accepted"
    /\ frame[h].ev.inWin
    /\ frame[h].prev >= 0
    /\ frame[h].t0 - frame[h].prev >= DebounceTicks

\* C16: an exception during capture ends get_selected_text with the empty text and
\* without raising, and the dispatch makes no request and no injection.
C16_CaptureExceptionCaught ==
  \A h \in Handlers :
    frame[h].gstRaised =>
      /\ frame[h].pc \in {"gst_done", "ret"}
      /\ frame[h].selection = <<>>
      /\ frame[h].requests = 0 /\ frame[h].gw = "none"
      /\ frame[h].calls = <<>> /\ frame[h].typed = <<>>
      /\ ~frame[h].escaped

C16_Witness ==
  \E h \in Handlers :
    /\ frame[h].pc = "ret"
    /\ frame[h].gstRaised
    /\ frame[h].read # <<>>

\* C17: a dispatch makes at most one completion request, only for an accepted
\* known hotkey after a capture that gave a non-empty text; after a failed request
\* the only call of paste_text_at_cursor carries the error string.
C17_OneRequestPerDispatch ==
  \A h \in Handlers :
    LET f == frame[h]
    IN  /\ f.requests <= 1
        /\ f.requests > 0 =>
             /\ f.outcome = "accepted" /\ Known(f.ev.name)
             /\ f.captured /\ ~f.gstRaised /\ f.selection # <<>>
        /\ f.gw # "none" => f.requests = 1
        /\ f.gw = "fail" => f.calls = <<error_message>>

C17_Witness ==
  \E h \in Handlers :
    /\ frame[h].pc = "ret"
    /\ frame[h].gw = "fail"
    /\ frame[h].requests = 1

\* C18: while the completion call is in progress the clipboard holds what it held
\* when the dispatch began, and the clipboard changes only in a step of
\* get_selected_text or paste_text_at_cursor.
C18_ClipboardNotHeldAcrossRequest ==
  /\ [](\A h \in Handlers : frame[h].pc = "request" => clipboard = frame[h].before)
  /\ [][clipboard' # clipboard =>
          \E h \in Handlers :
            frame[h].pc \in {"gst_send", "gst_restore", "p_write", "p_restore", "p_except"}]_vars

C18_Witness ==
  \E h \in Handlers :
    /\ frame[h].pc = "request"
    /\ frame[h].read # frame[h].before
    /\ clipboard = frame[h].before

\* C19: the timestamp is written when the event is accepted, before capture, and
\* stays written when the capture fails; a known-hotkey event handled within the
\* window of an accepted event is dropped without capture.
C19_StampBeforeCapture ==
  /\ \A h \in Handlers :
       (frame[h].outcome = "accepted" /\ frame[h].pc # "idle") =>
         (last_key_time = frame[h].t0 /\ lastAccept = frame[h].t0)
  /\ \A h \in Handlers :
       (frame[h].outcome \in {"dropped", "accepted"} /\ frame[h].prev >= 0
          /\ frame[h].t0 - frame[h].prev < DebounceTicks) =>
         (frame[h].outcome = "dropped" /\ ~frame[h].captured)

\* A capture has just failed, the timestamp is that of its event, and a known
\* hotkey waits to be handled within the window.
C19_Witness ==
  \E h \in Handlers :
    /\ frame[h].pc \in {"gst_done", "ret"}
    /\ frame[h].captured
    /\ frame[h].selection = <<>>
    /\ last_key_time = frame[h].t0
    /\ queue # <<>>
    /\ Known(Head(queue).name)
    /\ now - last_key_time < DebounceTicks

\* C20: within a run the timestamp changes only when an event is accepted, to the
\* current time and never downwards; a dropped event leaves it unchanged; a
\* known-hotkey event handled a window or more after the timestamp is accepted.
C20_WindowDoesNotSlide ==
  [][/\ (last_key_time' # last_key_time /\ main' = main) =>
          /\ \E h \in Handlers : frame[h].pc = "idle" /\ frame'[h].outcome = "accepted"
          /\ last_key_time' = now
          /\ last_key_time' >= last_key_time
     /\ \A h \in Handlers :
          (frame[h].pc = "idle" /\ frame'[h].outcome = "dropped") =>
            last_key_time' = last_key_time
     /\ \A h \in Handlers :
          (frame[h].pc = "idle" /\ frame'[h].pc # "idle" /\ Known(frame'[h].ev.name)
             /\ now - last_key_time >= DebounceTicks) =>
            frame'[h].outcome = "accepted"]_vars

C20_Witness ==
  \E h \in Handlers :
    /\ frame[h].outcome = "accepted"
    /\ frame[h].prev >= 0
    /\ frame[h].drops >= 1

====
